---- MODULE Spec2Model ----
(***************************************************************************)
(* Model of alertmanager-twilio-gsheets (main.go): the webhook handler,    *)
(* the label parser getPhonesFromLabel and the two-tier recipient lookup   *)
(* Server.getTeamNumbers over the short (10 minute) and long (no expiry)   *)
(* go-cache instances.                                                     *)
(*                                                                         *)
(* Strings whose characters the code inspects (the phone_numbers label,    *)
(* phone numbers) are sequences of one-character strings.  Time is counted *)
(* in minutes.                                                             *)
(***************************************************************************)
EXTENDS Integers, Sequences, FiniteSets, TLC

VARIABLES
    shortCache,   \* serv.shortCache: key -> item [val, exp, src]
    longCache,    \* serv.longCache:  key -> item [val, exp, src]
    now,          \* wall clock, minutes
    lastCall,     \* the last getTeamNumbers call: arguments, path, result
    lastGood,     \* history: team -> its numbers in the latest non-empty snapshot holding it
    watch,        \* history: the team whose own fetches lastFetch follows
    lastFetch,    \* history: the latest non-empty snapshot read by a call for watch
    steady,       \* history: every directory read so far gave a non-empty snapshot
    req,          \* the webhook request being served
    lastAlert,    \* what the last iteration of webhook's loop did
    lastResponse, \* status code of the last asJson call (0: none yet)
    workers,      \* concurrent getTeamNumbers calls: position of each
    nextId,       \* number of snapshots read so far by the concurrent calls
    batch,        \* alerts.Alerts of the request being served, when it is kept
    events        \* history: what webhook has done for that request, in order

vars == <<shortCache, longCache, now, lastCall, lastGood, watch, lastFetch, steady,
          req, lastAlert, lastResponse, workers, nextId, batch, events>>

----------------------------------------------------------------------------
(* Bounds of the model *)

MaxTicks == 3        \* the clock stops after so many ticks
MaxAlerts == 2       \* alerts per webhook payload
NumWorkers == 2      \* concurrent getTeamNumbers calls
MaxFetches == 2      \* snapshots read by the concurrent calls
MaxFailAt == 2       \* position of the failing sendSms call of an alert

----------------------------------------------------------------------------
(* Program constants *)

ShortExpiration == 10      \* cache.New(10*time.Minute, ...)
NoExpiration == -1         \* cache.NoExpiration
DefaultExpiration == 0     \* cache.DefaultExpiration
MaxPhoneDigits == 14       \* \d{1,14}

\* the clock advances by half the short cache's expiration
TickStep == ShortExpiration \div 2

----------------------------------------------------------------------------
(* Data *)

Digits == {"0", "1", "2", "3", "4", "5", "6", "7", "8", "9"}
NonZeroDigits == Digits \ {"0"}

N1 == <<"1", "1">>
N2 == <<"2", "2">>
N3 == <<"3", "3", "3">>

\* team labels of incoming alerts
Teams == {"red", "infra", "green", ""}

\* resp.Values: rows of cells, first the team, then the numbers
Sheet1 == << <<"red", N1>>, <<"infra", N2, N3>> >>
Sheet2 == << <<"infra", N1>>, <<>>, <<"red", N1>> >>
Sheet3 == << <<"", N2>>, <<"red">> >>
SheetEmpty == << >>
Sheets == {Sheet1, Sheet2, Sheet3, SheetEmpty}

\* what one attempt to read the directory yields
Outcomes == {[kind |-> "connErr", values |-> << >>],
             [kind |-> "readErr", values |-> << >>]}
            \cup {[kind |-> "ok", values |-> s] : s \in Sheets}

\* phone_numbers labels
Fifteen == <<"1","2","3","4","5","6","7","8","9","0","1","2","3","4","5">>
Sixteen == Append(Fifteen, "6")
Labels == { << >>,
            <<"1", "2">>,
            <<"1", "2", ",", "3", "4", "5">>,
            <<"a", "b", "c">>,
            <<"1">>,
            <<"0", "1", "2">>,
            <<"1", "2", ",">>,
            <<"1", "2", ",", ",", "3", "4">>,
            Fifteen,
            Sixteen }

Alerts == {[team |-> t, phone_numbers |-> l] : t \in Teams, l \in Labels}

\* a possibly-nil slice
Nil == [isNil |-> TRUE, v |-> << >>]
Slice(s) == [isNil |-> FALSE, v |-> s]

----------------------------------------------------------------------------
(* go-cache, as main.go uses it *)

\* a mistaken expiry test: the item is dropped at the instant its time is up
Expired_AtDeadline(item, t) == item.exp > 0 /\ t >= item.exp

\* item.Expired(): time.Now().UnixNano() > item.Expiration
Expired(item, t) == item.exp > 0 /\ t > item.exp

CacheGet(c, k, t) ==
    IF k \in DOMAIN c /\ ~Expired(c[k], t)
    THEN [found |-> TRUE, val |-> c[k].val]
    ELSE [found |-> FALSE, val |-> << >>]

CacheSet(c, k, v, d, t, id) ==
    [x \in DOMAIN c \cup {k} |->
        IF x = k
        THEN [val |-> v, exp |-> IF d > 0 THEN t + d ELSE 0, src |-> id]
        ELSE c[x]]

\* Set with cache.DefaultExpiration takes the duration the cache was made with
Duration(d, ofCache) == IF d = DefaultExpiration THEN ofCache ELSE d

\* a mistaken fallback cache, made with the short cache's expiration
LongCacheSet_Expiring(lc, row, t, id) ==
    CacheSet(lc, row[1], Tail(row), Duration(DefaultExpiration, ShortExpiration), t, id)

\* serv.longCache.Set(row[0].(string), row[1:], cache.DefaultExpiration)
LongCacheSet(lc, row, t, id) ==
    CacheSet(lc, row[1], Tail(row), Duration(DefaultExpiration, NoExpiration), t, id)

\* a mistaken short cache, made with half the expiration
ShortCacheSet_Half(sc, row, t, id) ==
    CacheSet(sc, row[1], Tail(row), ShortExpiration \div 2, t, id)

\* a mistaken short cache, made like the fallback cache: its items never expire
ShortCacheSet_NoExpiry(sc, row, t, id) ==
    CacheSet(sc, row[1], Tail(row), Duration(DefaultExpiration, NoExpiration), t, id)

\* serv.shortCache.Set(row[0].(string), row[1:], cache.DefaultExpiration)
ShortCacheSet(sc, row, t, id) ==
    CacheSet(sc, row[1], Tail(row), Duration(DefaultExpiration, ShortExpiration), t, id)

\* the janitor of the short cache: DeleteExpired
DeleteExpired(c, t) == [k \in {x \in DOMAIN c : ~Expired(c[x], t)} |-> c[k]]

----------------------------------------------------------------------------
(* getPhonesFromLabel *)

RECURSIVE SplitFrom(_, _, _, _)
\* strings.Split(s, sep) for a one-character sep: scan from position i, cur the
\* piece being read, acc the pieces already closed
SplitFrom(s, sep, i, st) ==
    IF i > Len(s) THEN Append(st.acc, st.cur)
    ELSE IF s[i] = sep
         THEN SplitFrom(s, sep, i + 1, [acc |-> Append(st.acc, st.cur), cur |-> << >>])
         ELSE SplitFrom(s, sep, i + 1, [acc |-> st.acc, cur |-> Append(st.cur, s[i])])

Split(s, sep) == SplitFrom(s, sep, 1, [acc |-> << >>, cur |-> << >>])

\* [1-9]\d{1,14}
MatchesPhone(p) ==
    /\ Len(p) >= 2
    /\ Len(p) <= 1 + MaxPhoneDigits
    /\ p[1] \in NonZeroDigits
    /\ \A i \in 2..Len(p) : p[i] \in Digits

\* ^[1-9]\d{1,14}(,[1-9]\d{1,14})*$
MatchesPhonesPattern(s) ==
    LET pieces == Split(s, ",")
    IN  \A i \in 1..Len(pieces) : MatchesPhone(pieces[i])

\* a mistaken parser: the matching label is returned whole, not split
GetPhonesFromLabel_Unsplit(phoneNumbers) ==
    IF phoneNumbers = << >> THEN [list |-> Nil, err |-> FALSE]
    ELSE IF ~MatchesPhonesPattern(phoneNumbers) THEN [list |-> Nil, err |-> TRUE]
    ELSE [list |-> Slice(<<phoneNumbers>>), err |-> FALSE]

\* a mistaken parser: the result of the match is not looked at
GetPhonesFromLabel_Unchecked(phoneNumbers) ==
    IF phoneNumbers = << >> THEN [list |-> Nil, err |-> FALSE]
    ELSE [list |-> Slice(Split(phoneNumbers, ",")), err |-> FALSE]

GetPhonesFromLabel(phoneNumbers) ==
    IF phoneNumbers = << >> THEN [list |-> Nil, err |-> FALSE]
    ELSE IF ~MatchesPhonesPattern(phoneNumbers) THEN [list |-> Nil, err |-> TRUE]
    ELSE [list |-> Slice(Split(phoneNumbers, ",")), err |-> FALSE]

----------------------------------------------------------------------------
(* Server.getTeamNumbers *)

\* the result of one call: the caches it leaves, what it returns, the path it
\* took and how often it called NewSpreadsheetService (svc) and Values.Get (reads)
CallResult(sc, lc, res, err, path, svc, reads) ==
    [short |-> sc, long |-> lc, res |-> res, err |-> err, path |-> path,
     svc |-> svc, reads |-> reads]

\* a mistaken fallback: the value found in the long cache is put back into the
\* short cache
Fallback_Promote(team, sc, lc, t, path, svc, reads) ==
    LET got == CacheGet(lc, team, t)
    IN  IF got.found
        THEN CallResult(CacheSet(sc, team, got.val, ShortExpiration, t, 0), lc,
                        Slice(got.val), "", path, svc, reads)
        ELSE CallResult(sc, lc, Nil, "NoFallback", path, svc, reads)

\* the fallback branches: serv.longCache.Get(team)
Fallback(team, sc, lc, t, path, svc, reads) ==
    LET got == CacheGet(lc, team, t)
    IN  IF got.found
        THEN CallResult(sc, lc, Slice(got.val), "", path, svc, reads)
        ELSE CallResult(sc, lc, Nil, "NoFallback", path, svc, reads)

\* a mistaken end of the loop: the fallback cache is asked when no row matched
NoRowResult_Fallback(team, sc, lc, t) == Fallback(team, sc, lc, t, "norow", 1, 1)

\* after the loop: errors.New("No row found in Sheet for team ...")
NoRowResult(team, sc, lc, t) == CallResult(sc, lc, Nil, "NoRow", "norow", 1, 1)

RECURSIVE StoreRows(_, _, _, _, _, _, _)
\* the loop over resp.Values from row i on
StoreRows(rows, i, team, sc, lc, t, id) ==
    IF i > Len(rows)
    THEN NoRowResult(team, sc, lc, t)
    ELSE IF Len(rows[i]) > 0
         THEN LET lc2 == LongCacheSet(lc, rows[i], t, id)
                  sc2 == ShortCacheSet(sc, rows[i], t, id)
              IN  IF rows[i][1] = team
                  THEN CallResult(sc2, lc2, Slice(Tail(rows[i])), "", "found", 1, 1)
                  ELSE StoreRows(rows, i + 1, team, sc2, lc2, t, id)
         ELSE StoreRows(rows, i + 1, team, sc, lc, t, id)

GetTeamNumbers(team, sc, lc, t, outcome, id) ==
    LET hit == CacheGet(sc, team, t)
    IN  IF hit.found
        THEN CallResult(sc, lc, Slice(hit.val), "", "short", 0, 0)
        ELSE IF outcome.kind = "connErr"
        THEN Fallback(team, sc, lc, t, "connErr", 1, 0)
        ELSE IF outcome.kind = "readErr"
        THEN Fallback(team, sc, lc, t, "readErr", 1, 1)
        ELSE IF Len(outcome.values) = 0
        THEN CallResult(sc, lc, Nil, "SheetEmpty", "empty", 1, 1)
        ELSE StoreRows(outcome.values, 1, team, sc, lc, t, id)

----------------------------------------------------------------------------
(* State after newServer, and the history kept beside it *)

EmptyCache == [k \in {} |-> 0]

\* what is known of the watched team: its latest fetch, and the time of the
\* latest write of its short-cache item (wrote, -1 while there was none)
NoFetch == [seen |-> FALSE, at |-> 0, hadRow |-> FALSE, wrote |-> -1]

NoCall == [called |-> FALSE, team |-> "", path |-> "", res |-> Nil, err |-> "",
           svc |-> 0, reads |-> 0, read |-> "none", values |-> << >>, at |-> 0,
           prev |-> NoFetch,
           hadShort |-> Nil, hadLong |-> Nil, changed |-> FALSE]

NoAlert == [done |-> FALSE, team |-> "", phone_numbers |-> << >>, labelErr |-> FALSE,
            resolved |-> FALSE, recipients |-> Nil, attempts |-> << >>,
            failed |-> FALSE]

Idle == [state |-> "idle", left |-> 0]

IdleWorker == [pc |-> "idle", team |-> "", rows |-> << >>, i |-> 0, id |-> 0]

Init ==
    /\ shortCache = EmptyCache
    /\ longCache = EmptyCache
    /\ now = 0
    /\ lastCall = NoCall
    /\ lastGood = EmptyCache
    /\ watch \in Teams
    /\ lastFetch = NoFetch
    /\ steady = TRUE
    /\ req = Idle
    /\ lastAlert = NoAlert
    /\ lastResponse = 0
    /\ workers = [w \in 1..NumWorkers |-> IdleWorker]
    /\ nextId = 0
    /\ batch = << >>
    /\ events = << >>

\* what a cache holds for a key when a call starts: in the short cache an item
\* whose 10 minutes have not passed, in the long cache any item
UnexpiredItem(c, k, t) ==
    IF k \in DOMAIN c /\ t <= c[k].exp THEN Slice(c[k].val) ELSE Nil

HeldItem(c, k) == IF k \in DOMAIN c THEN Slice(c[k].val) ELSE Nil

\* the record of a call: r is what GetTeamNumbers gave, read and values what the
\* directory answered if the call reached it, sc and lc the caches when it started
CallRecord(team, r, outcome, t, prev, sc, lc) ==
    [called |-> TRUE, team |-> team, path |-> r.path, res |-> r.res, err |-> r.err,
     svc |-> r.svc, reads |-> r.reads,
     read |-> IF r.svc = 0 THEN "none" ELSE outcome.kind,
     values |-> IF r.svc = 0 THEN << >> ELSE outcome.values,
     at |-> t, prev |-> prev,
     hadShort |-> UnexpiredItem(sc, team, t), hadLong |-> HeldItem(lc, team),
     changed |-> (r.short # sc \/ r.long # lc)]

\* the teams of a snapshot and the numbers of a team's (first) row
SnapshotTeams(values) ==
    {values[i][1] : i \in {j \in 1..Len(values) : Len(values[j]) > 0}}

FirstRow(values, team) ==
    CHOOSE i \in 1..Len(values) :
        /\ Len(values[i]) > 0
        /\ values[i][1] = team
        /\ \A j \in 1..(i - 1) : Len(values[j]) = 0 \/ values[j][1] # team

NumbersOf(values, team) == Tail(values[FirstRow(values, team)])

\* a non-empty snapshot read replaces what is known of the teams it holds
GoodAfter(good, call) ==
    IF call.read # "ok" THEN good ELSE
    [k \in DOMAIN good \cup SnapshotTeams(call.values) |->
        IF k \in SnapshotTeams(call.values) THEN NumbersOf(call.values, k) ELSE good[k]]

\* a call of the watched team that read a non-empty snapshot is its latest fetch
FetchAfter(fetch, call, w) ==
    IF call.team = w /\ call.read = "ok" /\ Len(call.values) > 0
    THEN [fetch EXCEPT !.seen = TRUE, !.at = call.at,
                       !.hadRow = w \in SnapshotTeams(call.values)]
    ELSE fetch

\* a call that leaves another short-cache item for the watched team has written it
WriteAfter(fetch, call, w, sc, sc2) ==
    IF w \in DOMAIN sc2 /\ (w \notin DOMAIN sc \/ sc2[w] # sc[w])
    THEN [fetch EXCEPT !.wrote = call.at]
    ELSE fetch

SteadyAfter(st, call) ==
    st /\ (call.read = "none" \/ (call.read = "ok" /\ Len(call.values) > 0))

----------------------------------------------------------------------------
(* The recipient lookup alone: calls of getTeamNumbers one after another *)

\* getTeamNumbers(team) while the directory answers outcome
Resolve(team, outcome) ==
    /\ \E r \in {GetTeamNumbers(team, shortCache, longCache, now, outcome, 0)} :
       \E call \in {CallRecord(team, r, outcome, now,
                               IF team = watch THEN lastFetch ELSE NoFetch,
                               shortCache, longCache)} :
          /\ shortCache' = r.short
          /\ longCache' = r.long
          /\ lastCall' = call
          /\ lastGood' = GoodAfter(lastGood, call)
          /\ lastFetch' = WriteAfter(FetchAfter(lastFetch, call, watch), call, watch,
                                     shortCache, r.short)
          /\ steady' = SteadyAfter(steady, call)
    /\ UNCHANGED <<now, watch, req, lastAlert, lastResponse, workers, nextId,
                   batch, events>>

\* time passes
Tick ==
    /\ now + TickStep <= MaxTicks * TickStep
    /\ now' = now + TickStep
    /\ UNCHANGED <<shortCache, longCache, lastCall, lastGood, watch, lastFetch, steady,
                   req, lastAlert, lastResponse, workers, nextId,
                   batch, events>>

\* the short cache's janitor runs and finds something to delete
Janitor ==
    /\ shortCache' = DeleteExpired(shortCache, now)
    /\ shortCache' # shortCache
    /\ UNCHANGED <<longCache, now, lastCall, lastGood, watch, lastFetch, steady,
                   req, lastAlert, lastResponse, workers, nextId,
                   batch, events>>

Next ==
    \/ \E team \in Teams, outcome \in Outcomes : Resolve(team, outcome)
    \/ Tick
    \/ Janitor

Spec == Init /\ [][Next]_vars

----------------------------------------------------------------------------
(* Server.webhook, one request after another.  The alerts of the payload are  *)
(* independent inputs: the request keeps how many are left, and each is drawn *)
(* when the loop reaches it.                                                  *)

\* fmt.Sprintf("+%v", recipient)
PlusNumber(recipient) == <<"+">> \o recipient

\* the sends of one alert: sendSms is called for the recipients in order until
\* a call fails; failAt is the position of the failing call (0: none fails)
\* a mistaken loop: a failed sendSms call is made a second time
SendAll_Retry(recipients, failAt) ==
    [i \in 1..(IF failAt >= 1 /\ failAt <= Len(recipients)
               THEN Len(recipients) + 1 ELSE Len(recipients))
        |-> LET pos == IF failAt >= 1 /\ failAt <= Len(recipients) /\ i > failAt
                       THEN i - 1 ELSE i
            IN  [pos |-> pos, to |-> PlusNumber(recipients[pos]), ok |-> i # failAt]]

\* a mistaken loop: the recipients are taken last to first
SendAll_Reversed(recipients, failAt) ==
    [i \in 1..(IF failAt >= 1 /\ failAt <= Len(recipients) THEN failAt ELSE Len(recipients))
        |-> [pos |-> Len(recipients) + 1 - i,
             to |-> PlusNumber(recipients[Len(recipients) + 1 - i]), ok |-> i # failAt]]

SendAll(recipients, failAt) ==
    [i \in 1..(IF failAt >= 1 /\ failAt <= Len(recipients) THEN failAt ELSE Len(recipients))
        |-> [pos |-> i, to |-> PlusNumber(recipients[i]), ok |-> i # failAt]]

\* a mistaken test: an alert without recipients counts as a failed send
SendFailed_EmptyFails(attempts) ==
    attempts = << >> \/ \E i \in 1..Len(attempts) : ~attempts[i].ok

SendFailed(attempts) == \E i \in 1..Len(attempts) : ~attempts[i].ok

\* a mistaken handler: the body is decoded before the method is looked at
Reject_DecodeFirst(method, decodes) ==
    IF ~decodes THEN 400 ELSE IF method # "POST" THEN 405 ELSE 0

\* the status webhook answers before it looks at any alert (0: none, it goes on)
Reject(method, decodes) ==
    IF method # "POST" THEN 405 ELSE IF ~decodes THEN 400 ELSE 0

\* one iteration of the loop over alerts.Alerts: the recipients it determines,
\* the sendSms calls it makes, and the caches it leaves
LoopBody(alert, sc, lc, t, outcome, failAt) ==
    LET parsed == GetPhonesFromLabel(alert.phone_numbers)
        r == GetTeamNumbers(alert.team, sc, lc, t, outcome, 0)
        resolve == parsed.list.isNil
        recipients == IF resolve THEN r.res ELSE parsed.list
        resolveFailed == resolve /\ r.err # ""
        attempts == IF resolveFailed THEN << >> ELSE SendAll(recipients.v, failAt)
    IN  [parsed |-> parsed, r |-> r, resolve |-> resolve, recipients |-> recipients,
         resolveFailed |-> resolveFailed, attempts |-> attempts,
         failed |-> resolveFailed \/ SendFailed(attempts),
         short |-> IF resolve THEN r.short ELSE sc,
         long |-> IF resolve THEN r.long ELSE lc]

\* a mistaken loop: the return after the 500 answer is missing
AfterAlert_KeepGoing(failed, left) ==
    IF left = 1
    THEN [response |-> 200, req |-> Idle]
    ELSE [response |-> IF failed THEN 500 ELSE 0,
          req |-> [state |-> "running", left |-> left - 1]]

\* how an iteration ends: 500 and return when it failed, 200 after the last
\* alert, else on to the next alert
AfterAlert(failed, left) ==
    IF failed
    THEN [response |-> 500, req |-> Idle]
    ELSE IF left = 1
    THEN [response |-> 200, req |-> Idle]
    ELSE [response |-> 0, req |-> [state |-> "running", left |-> left - 1]]

\* the request arrives: method check, then decoding of a body of n alerts
Receive(method, decodes, n) ==
    /\ req.state = "idle"
    /\ lastAlert' = NoAlert
    /\ lastCall' = NoCall
    /\ IF Reject(method, decodes) # 0
       THEN lastResponse' = Reject(method, decodes) /\ req' = Idle
       ELSE IF n = 0
       THEN lastResponse' = 200 /\ req' = Idle
       ELSE lastResponse' = 0 /\ req' = [state |-> "running", left |-> n]
    /\ UNCHANGED <<shortCache, longCache, now, lastGood, watch, lastFetch, steady,
                   workers, nextId,
                   batch, events>>

\* one iteration of the loop over alerts.Alerts; the lookup history (lastGood,
\* lastFetch, steady) is kept by Resolve alone
AlertStep(alert, outcome, failAt) ==
    /\ req.state = "running"
    /\ \E b \in {LoopBody(alert, shortCache, longCache, now, outcome, failAt)} :
       \E after \in {AfterAlert(b.failed, req.left)} :
           /\ shortCache' = b.short
           /\ longCache' = b.long
           /\ lastCall' = IF b.resolve
                          THEN CallRecord(alert.team, b.r, outcome, now, NoFetch,
                                          shortCache, longCache)
                          ELSE NoCall
           /\ lastAlert' = [done |-> TRUE, team |-> alert.team,
                            phone_numbers |-> alert.phone_numbers,
                            labelErr |-> b.parsed.err, resolved |-> b.resolve,
                            recipients |-> b.recipients, attempts |-> b.attempts,
                            failed |-> b.failed]
           /\ lastResponse' = after.response
           /\ req' = after.req
    /\ UNCHANGED <<now, lastGood, watch, lastFetch, steady, workers, nextId,
                   batch, events>>

NextWebhook ==
    \/ \E method \in {"POST", "GET"}, decodes \in BOOLEAN, n \in 0..MaxAlerts :
          Receive(method, decodes, n)
    \/ \E alert \in Alerts, outcome \in Outcomes, failAt \in 0..MaxFailAt :
          AlertStep(alert, outcome, failAt)

\* the lookup history is not kept here: any one watched team will do
InitWebhook == Init /\ watch = "red"

SpecWebhook == InitWebhook /\ [][NextWebhook]_vars

----------------------------------------------------------------------------
(* Server.webhook with the payload kept: the request holds alerts.Alerts, the *)
(* loop takes them by index, and events tells what the handler did for the    *)
(* request: the request itself, the recipients each alert got, every sendSms  *)
(* call, every asJson call.                                                   *)

\* the alerts of the payloads
BatchAlerts ==
    {[team |-> t, phone_numbers |-> l] :
        t \in {"red", "infra"}, l \in {<< >>, <<"1", "2", ",", "3", "4", "5">>}}

Payloads == UNION {[1..n -> BatchAlerts] : n \in 0..MaxAlerts}

RequestEvent(method, decodes) ==
    [kind |-> "request", method |-> method, decodes |-> decodes]

\* the recipients of alert i: from the label, or from a getTeamNumbers call that
\* built the Sheets client svc times and read the sheet reads times
RecipientsEvent(i, b) ==
    [kind |-> "recipients", alert |-> i, lookup |-> b.resolve,
     ok |-> ~b.resolveFailed, v |-> b.recipients.v,
     svc |-> IF b.resolve THEN b.r.svc ELSE 0,
     reads |-> IF b.resolve THEN b.r.reads ELSE 0]

SendEvents(i, attempts) ==
    [j \in 1..Len(attempts) |->
        [kind |-> "send", alert |-> i, pos |-> attempts[j].pos,
         to |-> attempts[j].to, ok |-> attempts[j].ok]]

ResponseEvents(code) ==
    IF code = 0 THEN << >> ELSE << [kind |-> "response", code |-> code] >>

\* the request arrives: method check, then decoding of the body into payload
ReceiveBatch(method, decodes, payload) ==
    /\ req.state = "idle"
    /\ \E code \in {Reject(method, decodes)} :
       \E alerts \in {IF code # 0 THEN << >> ELSE payload} :
          /\ batch' = alerts
          /\ lastResponse' = IF code # 0 THEN code
                              ELSE IF Len(alerts) = 0 THEN 200 ELSE 0
          /\ req' = IF code # 0 \/ Len(alerts) = 0
                     THEN Idle
                     ELSE [state |-> "running", left |-> Len(alerts)]
          /\ events' = <<RequestEvent(method, decodes)>>
                        \o ResponseEvents(lastResponse')
    /\ UNCHANGED <<shortCache, longCache, now, lastCall, lastGood, watch, lastFetch,
                   steady, lastAlert, workers, nextId>>

\* one iteration of the loop over alerts.Alerts
BatchStep(outcome, failAt) ==
    /\ req.state = "running"
    /\ \E i \in {Len(batch) - req.left + 1} :
       \E b \in {LoopBody(batch[i], shortCache, longCache, now, outcome, failAt)} :
       \E after \in {AfterAlert(b.failed, req.left)} :
           /\ shortCache' = b.short
           /\ longCache' = b.long
           /\ lastResponse' = after.response
           /\ req' = after.req
           /\ events' = events \o <<RecipientsEvent(i, b)>>
                               \o SendEvents(i, b.attempts)
                               \o ResponseEvents(after.response)
    /\ UNCHANGED <<now, lastCall, lastGood, watch, lastFetch, steady, lastAlert,
                   workers, nextId, batch>>

NextBatch ==
    \/ \E method \in {"POST", "GET"}, decodes \in BOOLEAN, payload \in Payloads :
          ReceiveBatch(method, decodes, payload)
    \/ \E outcome \in Outcomes, failAt \in 0..MaxFailAt :
          BatchStep(outcome, failAt)

SpecBatch == InitWebhook /\ [][NextBatch]_vars

----------------------------------------------------------------------------
(* getTeamNumbers called by several requests at once: each cache operation *)
(* is atomic (go-cache locks inside Get and Set), the function is not.     *)

Worker(w) == workers[w]

\* serv.shortCache.Get(team): a hit returns at once
Begin(w, team) ==
    /\ Worker(w).pc = "idle"
    /\ workers' = [workers EXCEPT ![w] =
          IF CacheGet(shortCache, team, now).found
          THEN IdleWorker
          ELSE [IdleWorker EXCEPT !.pc = "fetch", !.team = team]]
    /\ UNCHANGED <<shortCache, longCache, now, lastCall, lastGood, watch, lastFetch,
                   steady, req, lastAlert, lastResponse, nextId,
                   batch, events>>

\* NewSpreadsheetService and Values.Get: on an error or on no rows the call
\* returns (the fallback only reads), otherwise it enters the loop
Fetch(w, outcome) ==
    /\ Worker(w).pc = "fetch"
    /\ IF outcome.kind = "ok" /\ Len(outcome.values) > 0
       THEN /\ nextId < MaxFetches
            /\ nextId' = nextId + 1
            /\ workers' = [workers EXCEPT ![w] =
                  [Worker(w) EXCEPT !.pc = "loop", !.rows = outcome.values,
                                    !.i = 1, !.id = nextId + 1]]
       ELSE /\ nextId' = nextId
            /\ workers' = [workers EXCEPT ![w] = IdleWorker]
    /\ UNCHANGED <<shortCache, longCache, now, lastCall, lastGood, watch, lastFetch,
                   steady, req, lastAlert, lastResponse,
                   batch, events>>

\* the head of a loop iteration: the end of the rows, an empty row, or
\* serv.longCache.Set
LoopLong(w) ==
    /\ Worker(w).pc = "loop"
    /\ IF Worker(w).i > Len(Worker(w).rows)
       THEN /\ workers' = [workers EXCEPT ![w] = IdleWorker]
            /\ longCache' = longCache
       ELSE IF Len(Worker(w).rows[Worker(w).i]) = 0
       THEN /\ workers' = [workers EXCEPT ![w].i = Worker(w).i + 1]
            /\ longCache' = longCache
       ELSE /\ workers' = [workers EXCEPT ![w].pc = "short"]
            /\ longCache' = LongCacheSet(longCache, Worker(w).rows[Worker(w).i], now,
                                         Worker(w).id)
    /\ UNCHANGED <<shortCache, now, lastCall, lastGood, watch, lastFetch, steady, req,
                   lastAlert, lastResponse, nextId,
                   batch, events>>

\* serv.shortCache.Set, then the return on the team's own row
LoopShort(w) ==
    /\ Worker(w).pc = "short"
    /\ shortCache' = ShortCacheSet(shortCache, Worker(w).rows[Worker(w).i], now,
                                   Worker(w).id)
    /\ workers' = [workers EXCEPT ![w] =
          IF Worker(w).rows[Worker(w).i][1] = Worker(w).team
          THEN IdleWorker
          ELSE [Worker(w) EXCEPT !.pc = "loop", !.i = Worker(w).i + 1]]
    /\ UNCHANGED <<longCache, now, lastCall, lastGood, watch, lastFetch, steady, req,
                   lastAlert, lastResponse, nextId,
                   batch, events>>

NextConc ==
    \/ \E w \in 1..NumWorkers, team \in Teams : Begin(w, team)
    \/ \E w \in 1..NumWorkers, outcome \in Outcomes : Fetch(w, outcome)
    \/ \E w \in 1..NumWorkers : LoopLong(w)
    \/ \E w \in 1..NumWorkers : LoopShort(w)

InitConc == Init /\ watch = "red"

SpecConc == InitConc /\ [][NextConc]_vars

----------------------------------------------------------------------------
(* Properties of the recipient lookup (specification Spec) *)

\* the last call missed the short cache and read a snapshot with rows
ReadRows == lastCall.called /\ lastCall.read = "ok" /\ Len(lastCall.values) > 0

\* the last call missed the short cache and could not read the directory
ReadFailed == lastCall.called /\ lastCall.read \in {"connErr", "readErr"}

\* the last call missed the short cache and read a snapshot without rows
ReadNoRows == lastCall.called /\ lastCall.read = "ok" /\ Len(lastCall.values) = 0

\* C1: a call for a team whose short-cache item has not expired returns that
\* item's numbers and neither builds the Sheets client nor reads the sheet.
C1_ShortHitNoDirectory ==
    (lastCall.called /\ ~lastCall.hadShort.isNil) =>
        /\ lastCall.res = lastCall.hadShort
        /\ lastCall.err = ""
        /\ lastCall.svc = 0
        /\ lastCall.reads = 0

\* C1 happens: a hit on an item at the last minute of its life
C1_Witness ==
    /\ lastCall.called
    /\ ~lastCall.hadShort.isNil
    /\ lastCall.team \in DOMAIN shortCache
    /\ shortCache[lastCall.team].exp = lastCall.at
    /\ lastCall.at > 0

\* C2: right after a call that read a snapshot with rows, every team of the
\* snapshot is in both caches with the numbers of its row.
C2_AllRowsCached ==
    (ReadRows /\ lastCall.at = now) =>
        \A k \in SnapshotTeams(lastCall.values) :
            /\ UnexpiredItem(shortCache, k, now) = Slice(NumbersOf(lastCall.values, k))
            /\ HeldItem(longCache, k) = Slice(NumbersOf(lastCall.values, k))

\* C3: when the short cache misses and the directory cannot be read, the call
\* returns the long-cache item of the team whatever its age, and fails with
\* not-found when the long cache has none.
C3_FallbackOnFailure ==
    ReadFailed =>
        IF lastCall.hadLong.isNil
        THEN lastCall.res.isNil /\ lastCall.err = "NoFallback"
        ELSE lastCall.res = lastCall.hadLong /\ lastCall.err = ""

\* C3 happens: the fallback serves numbers whose short-cache twin, written in
\* the same loop iteration, has expired
C3_Witness ==
    /\ ReadFailed
    /\ lastCall.at = now
    /\ ~lastCall.hadLong.isNil
    /\ lastCall.res = lastCall.hadLong
    /\ lastCall.team \in DOMAIN shortCache
    /\ now > shortCache[lastCall.team].exp

\* C4: when the directory is read and has no rows, the call returns the
\* long-cache item of the team if there is one and fails only if there is none.
C4_EmptyFallsBack ==
    ReadNoRows =>
        IF lastCall.hadLong.isNil
        THEN lastCall.res.isNil /\ lastCall.err # ""
        ELSE lastCall.res = lastCall.hadLong /\ lastCall.err = ""

\* C5: when the short cache misses and the snapshot read has rows but none for
\* the team, the call fails with not-found, whether or not the long cache
\* holds the team.
C5_NoRowNoFallback ==
    (ReadRows /\ lastCall.team \notin SnapshotTeams(lastCall.values)) =>
        lastCall.res.isNil /\ lastCall.err = "NoRow"

\* C5 happens: the long cache held the team and the call failed all the same
C5_Witness ==
    /\ ReadRows
    /\ lastCall.team \notin SnapshotTeams(lastCall.values)
    /\ ~lastCall.hadLong.isNil
    /\ lastCall.err = "NoRow"

\* C7: for every team seen in a snapshot with rows, the long cache holds the
\* numbers of the team in the latest such snapshot.
C7_LongHoldsLatest ==
    \A k \in DOMAIN lastGood : HeldItem(longCache, k) = Slice(lastGood[k])

\* C8, as claimed: while every read gives a snapshot with rows, two reads
\* caused by calls for the same team are more than 10 minutes apart, for a
\* team with a row and for a team without.
C8_OneFetchPerWindow ==
    (steady /\ ReadRows /\ lastCall.team = watch /\ lastCall.prev.seen) =>
        lastCall.at - lastCall.prev.at > ShortExpiration

\* C8, amended: the same, for a team whose earlier read found a row for it.
C8_OneFetchPerWindowWithRow ==
    (steady /\ ReadRows /\ lastCall.team = watch /\ lastCall.prev.seen
        /\ lastCall.prev.hadRow) =>
        lastCall.at - lastCall.prev.at > ShortExpiration

\* C8 happens: a second read for a team whose first read found its row
C8_Witness ==
    /\ steady
    /\ ReadRows
    /\ lastCall.team = watch
    /\ lastCall.prev.seen
    /\ lastCall.prev.hadRow

----------------------------------------------------------------------------
(* Properties of the webhook (specification SpecWebhook) *)

\* the phone_numbers label read position by position: where its numbers start
\* and end, whether each is a digit 1-9 followed by 1 to 14 digits
Commas(l) == {i \in 1..Len(l) : l[i] = ","}

Starts(l) == {1} \cup {c + 1 : c \in Commas(l)}

EndOf(l, a) ==
    IF \E c \in Commas(l) : c >= a
    THEN (CHOOSE c \in Commas(l) : c >= a /\ \A d \in Commas(l) : d >= a => c <= d) - 1
    ELSE Len(l)

NumberAt(l, a) ==
    /\ EndOf(l, a) - a + 1 >= 2
    /\ EndOf(l, a) - a + 1 <= 15
    /\ l[a] \in {"1", "2", "3", "4", "5", "6", "7", "8", "9"}
    /\ \A i \in a..EndOf(l, a) : l[i] \in Digits

WellFormedLabel(l) == l # << >> /\ \A a \in Starts(l) : NumberAt(l, a)

NthStart(l, k) == CHOOSE a \in Starts(l) : Cardinality({b \in Starts(l) : b < a}) = k - 1

LabelNumbers(l) ==
    [k \in 1..Cardinality(Starts(l)) |-> SubSeq(l, NthStart(l, k), EndOf(l, NthStart(l, k)))]

\* C9: an alert with a well-formed phone_numbers label is sent to exactly the
\* numbers of the label, in the label's order, and getTeamNumbers is not
\* called for it, whatever its team label and the caches.
C9_LabelBypassesLookup ==
    (lastAlert.done /\ WellFormedLabel(lastAlert.phone_numbers)) =>
        /\ lastAlert.recipients = Slice(LabelNumbers(lastAlert.phone_numbers))
        /\ ~lastAlert.resolved
        /\ ~lastCall.called
        /\ Len(lastAlert.attempts) <= Len(LabelNumbers(lastAlert.phone_numbers))
        /\ \A i \in 1..Len(lastAlert.attempts) :
              lastAlert.attempts[i].to = <<"+">> \o LabelNumbers(lastAlert.phone_numbers)[i]
        /\ (~SendFailed(lastAlert.attempts) =>
              Len(lastAlert.attempts) = Len(LabelNumbers(lastAlert.phone_numbers)))

\* C9 happens: both numbers of a label are sent to while the short cache holds
\* the alert's team
C9_Witness ==
    /\ lastAlert.done
    /\ WellFormedLabel(lastAlert.phone_numbers)
    /\ Len(lastAlert.attempts) = 2
    /\ ~SendFailed(lastAlert.attempts)
    /\ lastAlert.team \in DOMAIN shortCache

\* C10: an alert with a malformed phone_numbers label does not end the
\* request: getTeamNumbers is called with its team label, its recipients are
\* what the call returns, and the request fails on it only if that call or a
\* send fails.
C10_MalformedLabelFallsThrough ==
    (lastAlert.done /\ lastAlert.phone_numbers # << >>
        /\ ~WellFormedLabel(lastAlert.phone_numbers)) =>
        /\ lastAlert.labelErr
        /\ lastAlert.resolved
        /\ lastCall.called
        /\ lastCall.team = lastAlert.team
        /\ lastAlert.recipients = lastCall.res
        /\ (lastResponse = 500) = (lastCall.err # "" \/ SendFailed(lastAlert.attempts))
        /\ (lastCall.err = "" =>
              /\ Len(lastAlert.attempts) <= Len(lastCall.res.v)
              /\ \A i \in 1..Len(lastAlert.attempts) :
                    lastAlert.attempts[i].to = <<"+">> \o lastCall.res.v[i])

\* C10 happens: the lookup for a malformed label reads the directory, the
\* sends succeed and the request goes on to its next alert
C10_Witness ==
    /\ lastAlert.done
    /\ lastAlert.phone_numbers # << >>
    /\ ~WellFormedLabel(lastAlert.phone_numbers)
    /\ lastCall.called
    /\ lastCall.reads = 1
    /\ Len(lastAlert.attempts) > 0
    /\ ~SendFailed(lastAlert.attempts)
    /\ req.state = "running"

----------------------------------------------------------------------------
(* Properties of concurrent lookups (specification SpecConc) *)

\* C6: in every state, also between the cache writes of a call and while
\* calls overlap, a team held by both caches has its two items from the same
\* snapshot read.
C6_SameFetchInBothCaches ==
    \A k \in DOMAIN shortCache \cap DOMAIN longCache :
        shortCache[k].src = longCache[k].src

----------------------------------------------------------------------------
(* The lifetime of a short-cache item (specification Spec) *)

\* C13: a call for a team is answered from the short cache only while at most
\* ShortExpiration minutes have passed since the write that put the team's item
\* there, whether or not the item was read in between; once more have passed the
\* call builds the Sheets client, and so does every later one until the item is
\* written again.
C13_ShortEntryLapses ==
    (lastCall.called /\ lastCall.team = watch) =>
        /\ lastCall.read = "none" =>
              /\ lastCall.prev.wrote >= 0
              /\ lastCall.at - lastCall.prev.wrote <= ShortExpiration
        /\ (lastCall.prev.wrote < 0
              \/ lastCall.at - lastCall.prev.wrote > ShortExpiration) =>
              /\ lastCall.read # "none"
              /\ lastCall.svc = 1

\* the item was written and, more than its lifetime later, asked for again
C13_Witness ==
    /\ lastCall.called
    /\ lastCall.team = watch
    /\ lastCall.prev.wrote >= 0
    /\ lastCall.at - lastCall.prev.wrote > ShortExpiration
    /\ lastCall.svc = 1

----------------------------------------------------------------------------
(* Rows without a team identifier (specification Spec) *)

\* C14: no cache ever holds an item under the empty key, and a call for the
\* empty team never returns numbers.
C14_EmptyTeamRowsSkipped ==
    /\ "" \notin DOMAIN shortCache
    /\ "" \notin DOMAIN longCache
    /\ (lastCall.called /\ lastCall.team = "") => lastCall.res.isNil

----------------------------------------------------------------------------
(* What a fetch leaves behind (specification Spec) *)

\* C16: when a call has read a snapshot with rows, the call that follows it at
\* the same instant, for any team of that snapshot, returns without error the
\* numbers of that team's row, in row order.
C16_RoundTrip ==
    [][(/\ ReadRows
        /\ lastCall.at = now
        /\ now' = now
        /\ lastCall' # lastCall
        /\ lastCall'.team \in SnapshotTeams(lastCall.values))
       => (/\ lastCall'.err = ""
           /\ lastCall'.res = Slice(NumbersOf(lastCall.values, lastCall'.team)))]_vars

\* C17: when a call has read a snapshot, every row of it that holds a team and
\* nothing else is in both caches with no numbers, and if the call was for that
\* team it returned the empty set without error.
C17_SingleColumnRowCached ==
    (ReadRows /\ lastCall.at = now) =>
        \A i \in 1..Len(lastCall.values) :
            Len(lastCall.values[i]) = 1 =>
                LET k == lastCall.values[i][1]
                IN  /\ k \in DOMAIN shortCache /\ shortCache[k].val = << >>
                    /\ k \in DOMAIN longCache /\ longCache[k].val = << >>
                    /\ lastCall.team = k =>
                          (lastCall.err = "" /\ lastCall.res = Slice(<< >>))

\* C18: a call that could not read the directory, or read a snapshot without
\* rows, changes neither cache and leaves the short cache without a live item
\* for its team; the next call for the same team builds the Sheets client again.
C18_NoWriteOnFailedFetch ==
    /\ []((ReadFailed \/ ReadNoRows) =>
            /\ ~lastCall.changed
            /\ (lastCall.at = now => ~CacheGet(shortCache, lastCall.team, now).found))
    /\ [][(/\ (ReadFailed \/ ReadNoRows)
            /\ lastCall' # lastCall
            /\ lastCall'.team = lastCall.team)
           => lastCall'.svc = 1]_vars

\* a call that could not read the directory was answered from the long cache
C18_Witness ==
    /\ ReadFailed
    /\ ~lastCall.hadLong.isNil
    /\ lastCall.res = lastCall.hadLong
    /\ lastCall.err = ""
    /\ lastCall.at = now
    /\ lastCall.team \notin DOMAIN shortCache

----------------------------------------------------------------------------
(* Properties of a whole request (specification SpecBatch) *)

IsSend(e) == e.kind = "send"
IsRecipients(e) == e.kind = "recipients"
IsResponse(e) == e.kind = "response"

\* a getTeamNumbers call that returned an error, or a sendSms call that did
IsFailure(e) == (IsRecipients(e) \/ IsSend(e)) /\ ~e.ok

\* the recipients the request determined for alert a
RecipientsOf(a) ==
    events[CHOOSE k \in 1..Len(events) :
               IsRecipients(events[k]) /\ events[k].alert = a].v

\* C11: within a request nothing follows the first failed getTeamNumbers or
\* sendSms call but the 500 answer: no further lookup and no further send, for
\* the rest of the alert's recipients or for the alerts after it.
C11_StopAtFirstFailure ==
    \A i \in 1..Len(events) :
        IsFailure(events[i]) =>
            /\ req.state = "idle"
            /\ Len(events) = i + 1
            /\ IsResponse(events[i + 1])
            /\ events[i + 1].code = 500

\* a send failed while the alert had more recipients and the payload more alerts
C11_Witness ==
    \E i \in 1..Len(events) :
        /\ IsSend(events[i])
        /\ ~events[i].ok
        /\ events[i].pos < Len(RecipientsOf(events[i].alert))
        /\ events[i].alert < Len(batch)

\* alert a had its recipients determined and every send to them succeeded
AlertDone(a) ==
    /\ \E k \in 1..Len(events) :
          IsRecipients(events[k]) /\ events[k].alert = a /\ events[k].ok
    /\ \A j \in 1..Len(RecipientsOf(a)) :
          \E k \in 1..Len(events) :
              /\ IsSend(events[k])
              /\ events[k].alert = a
              /\ events[k].pos = j
              /\ events[k].ok

\* C12: a request that has been answered has been answered once, as the last
\* thing done for it; a request other than POST with 405 and a POST whose body
\* does not decode with 400, both without any lookup or send; a POST whose body
\* decodes with 500 exactly if a lookup or a send failed and with 200 exactly
\* if every alert got its recipients and every send succeeded.
C12_OneResponse ==
    events # << >> =>
        LET first == events[1]
            n == Len(events)
            responses == {i \in 1..n : IsResponse(events[i])}
            acts == {i \in 1..n : IsRecipients(events[i]) \/ IsSend(events[i])}
        IN  /\ first.kind = "request"
            /\ req.state = "running" =>
                  (responses = {} /\ first.method = "POST" /\ first.decodes)
            /\ req.state = "idle" =>
                  /\ responses = {n}
                  /\ events[n].code = lastResponse
                  /\ first.method # "POST" => (lastResponse = 405 /\ acts = {})
                  /\ (first.method = "POST" /\ ~first.decodes) =>
                        (lastResponse = 400 /\ acts = {})
                  /\ (first.method = "POST" /\ first.decodes) =>
                        /\ lastResponse \in {200, 500}
                        /\ lastResponse = 500 <=>
                              \E i \in 1..n : IsFailure(events[i])
                        /\ lastResponse = 200 <=>
                              \A a \in 1..Len(batch) : AlertDone(a)

\* a request of two alerts was answered 500 after a send of it had succeeded
C12_Witness ==
    /\ req.state = "idle"
    /\ Len(batch) = 2
    /\ lastResponse = 500
    /\ \E i \in 1..Len(events) : IsSend(events[i]) /\ events[i].ok

\* C15: within a request each alert has its recipients determined once, by at
\* most one getTeamNumbers call, which builds the Sheets client at most once
\* and reads the sheet at most once; and no recipient of an alert is handed to
\* sendSms twice.
C15_NoRetries ==
    \A i \in 1..Len(events) :
        /\ IsRecipients(events[i]) =>
              /\ events[i].svc <= 1
              /\ events[i].reads <= events[i].svc
              /\ ~events[i].lookup => events[i].svc = 0
              /\ \A j \in 1..Len(events) :
                    (IsRecipients(events[j]) /\ events[j].alert = events[i].alert)
                        => j = i
        /\ IsSend(events[i]) =>
              \A j \in 1..Len(events) :
                  (/\ IsSend(events[j])
                   /\ events[j].alert = events[i].alert
                   /\ events[j].pos = events[i].pos) => j = i

\* a lookup read the sheet and a send failed, in one request
C15_Witness ==
    /\ \E i \in 1..Len(events) :
          /\ IsRecipients(events[i])
          /\ events[i].lookup
          /\ events[i].svc = 1
          /\ events[i].reads = 1
    /\ \E i \in 1..Len(events) : IsSend(events[i]) /\ ~events[i].ok

RECURSIVE PlannedFrom(_)
\* the messages due from event k on: for each alert whose recipients were
\* determined, one message for each recipient, in the order of the recipients
PlannedFrom(k) ==
    IF k > Len(events) THEN << >>
    ELSE (IF IsRecipients(events[k]) /\ events[k].ok
          THEN [j \in 1..Len(events[k].v) |->
                   [alert |-> events[k].alert, pos |-> j,
                    to |-> <<"+">> \o events[k].v[j]]]
          ELSE << >>) \o PlannedFrom(k + 1)

\* C19: the alerts of a request are taken in payload order, a label that holds
\* a list of numbers giving the recipients in the label's order; the sendSms
\* calls made so far are a prefix of the messages due for the alerts taken so
\* far, alert by alert and recipient by recipient; only the last call can have
\* failed; and a request answered 200 has made all the calls due.
C19_BatchOrder ==
    LET taken == SelectSeq(events, IsRecipients)
        sends == SelectSeq(events, IsSend)
        planned == PlannedFrom(1)
    IN  /\ \A a \in 1..Len(taken) :
              /\ taken[a].alert = a
              /\ a <= Len(batch)
              /\ taken[a].lookup = ~WellFormedLabel(batch[a].phone_numbers)
              /\ ~taken[a].lookup => taken[a].v = LabelNumbers(batch[a].phone_numbers)
        /\ Len(sends) <= Len(planned)
        /\ \A k \in 1..Len(sends) :
              /\ sends[k].alert = planned[k].alert
              /\ sends[k].pos = planned[k].pos
              /\ sends[k].to = planned[k].to
              /\ k < Len(sends) => sends[k].ok
        /\ (req.state = "idle" /\ lastResponse = 200) => Len(sends) = Len(planned)

\* a request answered 500 after all the sends of its first alert and the first
\* send of its second, with a message still due
C19_Witness ==
    /\ req.state = "idle"
    /\ lastResponse = 500
    /\ \E i \in 1..Len(events) :
          IsSend(events[i]) /\ events[i].alert = 1 /\ events[i].pos = 2 /\ events[i].ok
    /\ \E i \in 1..Len(events) :
          IsSend(events[i]) /\ events[i].alert = 2 /\ ~events[i].ok
    /\ Len(SelectSeq(events, IsSend)) < Len(PlannedFrom(1))

\* C20: an alert whose recipients were determined to be none has no sendSms
\* call and is no failure: the next alert of the payload is taken after it,
\* and if it was the last the request is answered 200.
C20_EmptySetIsNoFailure ==
    \A i \in 1..Len(events) :
        (IsRecipients(events[i]) /\ events[i].ok /\ events[i].v = << >>) =>
            /\ \A j \in 1..Len(events) :
                  IsSend(events[j]) => events[j].alert # events[i].alert
            /\ events[i].alert < Len(batch) =>
                  \/ i = Len(events) /\ req.state = "running"
                  \/ /\ i < Len(events)
                     /\ IsRecipients(events[i + 1])
                     /\ events[i + 1].alert = events[i].alert + 1
            /\ events[i].alert = Len(batch) =>
                  /\ Len(events) = i + 1
                  /\ IsResponse(events[i + 1])
                  /\ events[i + 1].code = 200
                  /\ lastResponse = 200
                  /\ req.state = "idle"

\* a request answered 200 whose first alert had no recipients and whose later
\* alert was sent
C20_Witness ==
    /\ req.state = "idle"
    /\ lastResponse = 200
    /\ \E i \in 1..Len(events) :
          /\ IsRecipients(events[i])
          /\ events[i].ok
          /\ events[i].lookup
          /\ events[i].v = << >>
          /\ events[i].alert < Len(batch)
    /\ \E i \in 1..Len(events) : IsSend(events[i]) /\ events[i].ok

====
